---- MODULE Spec2Model ----
(***************************************************************************)
(* Model of tp-counter (src/main.rs): the paginated ListObjectsV2 loop     *)
(* that collects the objects' last-modified timestamps, followed by the    *)
(* sort / consecutive-difference / total / average / h-m-s-ms report.      *)
(*                                                                         *)
(* A point in time and a duration are both records [secs, nanos] with      *)
(* 0 <= nanos < NANOS_PER_SEC, as in aws_smithy_types::DateTime and        *)
(* chrono::Duration.  TLC integers are 32 bit wide, so durations are never *)
(* flattened to a single nanosecond count.                                 *)
(***************************************************************************)
EXTENDS Integers, Sequences, FiniteSets, TLC

\* ------------------------------------------------------------------ bounds
\* Largest number of listing requests explored in one run.
MaxPages == 3
\* Largest number of objects on one page.
MaxObjs == 2
\* Largest number of objects with a last_modified in one listing.
MaxListed == 3
\* Largest number of timestamps handed to the report on its own.
MaxLen == 4
\* Stand-in for the last second that the date-time format can print
\* (9999-12-31T23:59:59Z, which does not fit a 32 bit integer).
MaxFormatSecs == 4000

\* --------------------------------------------------------- program constants
NANOS_PER_SEC == 1000000000
NANOS_PER_MILLI == 1000000
NANOS_PER_MICRO == 1000
MILLIS_PER_SEC == 1000
MILLIS_PER_HOUR == 1000 * 60 * 60
MILLIS_PER_MINUTE == 1000 * 60

\* ------------------------------------------------------------ Option<T>
None == [some |-> FALSE]
Some(v) == [some |-> TRUE, val |-> v]
unwrap_or(o, d) == IF o.some THEN o.val ELSE d

\* let x = v; Body(x): v is computed once and Body works on its value.
Bind(v, Body(_)) == CHOOSE r \in { Body(x) : x \in {v} } : TRUE

\* ------------------------------------------------------- values of a run
DT(s, n) == [secs |-> s, nanos |-> n]

\* last_modified values the service may report.  The last one lies beyond
\* the range the date-time format can print.
DateTimes == { DT(0, 0), DT(10, 2300001), DT(MaxFormatSecs + 1, 0) }

\* Timestamps the report is examined on by itself (values as parsed).
ReportTimes ==
  { DT(0, 0), DT(1, 999999000), DT(10, 0), DT(30, 0), DT(3661, 2300000) }

Tokens == { "abc" }

Objects == { [last_modified |-> lm] : lm \in {None} \cup { Some(d) : d \in DateTimes } }

SeqsUpTo(S, n) == UNION { [1..k -> S] : k \in 0..n }

\* ListObjectsV2Output: contents, is_truncated, next_continuation_token.
Pages ==
  [ contents : {None} \cup { Some(s) : s \in SeqsUpTo(Objects, MaxObjs) },
    is_truncated : { None, Some(TRUE), Some(FALSE) },
    next_continuation_token : {None} \cup { Some(t) : t \in Tokens } ]

\* ------------------------------------------------- integer helpers (Rust)
\* Rust's / and % truncate toward zero.
TruncDiv(a, b) == IF a >= 0 THEN a \div b ELSE -((-a) \div b)
TruncRem(a, b) == a - b * TruncDiv(a, b)

\* ------------------------------------------------- timestamp conversions
\* last_modified.to_string(): the date-time format keeps microseconds; a
\* value past the printable range is printed as epoch seconds instead.
to_string(dt) ==
  IF dt.secs <= MaxFormatSecs
    THEN [fmt |-> "date-time", secs |-> dt.secs,
          micros |-> dt.nanos \div NANOS_PER_MICRO]
    ELSE [fmt |-> "epoch-seconds", secs |-> dt.secs, nanos |-> dt.nanos]

\* DateTime::parse_from_rfc3339(&s)?.with_timezone(&Utc)
parse_from_rfc3339(s) ==
  IF s.fmt = "date-time"
    THEN [ok |-> TRUE, val |-> DT(s.secs, s.micros * NANOS_PER_MICRO)]
    ELSE [ok |-> FALSE]

\* ------------------------------------------------------------- ordering
\* Ord for DateTime<Utc>.
DateTimeLeq(a, b) == a.secs < b.secs \/ (a.secs = b.secs /\ a.nanos <= b.nanos)

\* Where s[i] goes in a stable ascending sort: after every smaller element
\* and after the equal elements that came before it.
SortedPosition(s, i) ==
  Cardinality({ j \in 1..Len(s) :
                  \/ ~DateTimeLeq(s[i], s[j])
                  \/ (j < i /\ DateTimeLeq(s[j], s[i])) }) + 1

\* Mutant: the sort is left out.
no_sort(s) == s

\* timestamps.sort(): stable ascending sort.
sort(s) ==
  [ k \in 1..Len(s) |-> s[CHOOSE i \in 1..Len(s) : SortedPosition(s, i) = k] ]

\* ---------------------------------------------------- duration arithmetic
\* *next - *prev
DateTimeSub(next, prev) ==
  LET s == next.secs - prev.secs
      n == next.nanos - prev.nanos
  IN IF n < 0 THEN DT(s - 1, n + NANOS_PER_SEC) ELSE DT(s, n)

\* acc + *x
DurationAdd(a, b) ==
  LET s == a.secs + b.secs
      n == a.nanos + b.nanos
  IN IF n >= NANOS_PER_SEC THEN DT(s + 1, n - NANOS_PER_SEC) ELSE DT(s, n)

DurationZero == DT(0, 0)

\* timestamps.windows(2) with next - prev pushed for every window
windows_diffs(s) ==
  [ i \in 1..(Len(s) - 1) |-> DateTimeSub(s[i + 1], s[i]) ]

\* time_diffs.iter().fold(Duration::zero(), |acc, x| acc + *x)
RECURSIVE fold_sum(_, _)
fold_sum(acc, s) ==
  IF s = <<>> THEN acc ELSE fold_sum(DurationAdd(acc, Head(s)), Tail(s))

\* carry * NANOS_PER_SEC / rhs, computed without leaving 32 bits:
\* NANOS_PER_SEC = q * rhs + r, so the quotient is carry * q + (carry * r) / rhs.
CarryNanos(carry, rhs) ==
  carry * (NANOS_PER_SEC \div rhs) + TruncDiv(carry * (NANOS_PER_SEC % rhs), rhs)

\* Mutant: the remainder of the seconds is dropped instead of carried.
DurationDivNoCarry(d, rhs) == DT(TruncDiv(d.secs, rhs), TruncDiv(d.nanos, rhs))

\* total_duration / (time_diffs.len() as i32): seconds and nanoseconds are
\* divided separately and the remainder of the seconds is carried over.
DurationDiv(d, rhs) ==
  LET secs == TruncDiv(d.secs, rhs)
      carry == d.secs - secs * rhs
      nanos == TruncDiv(d.nanos, rhs) + CarryNanos(carry, rhs)
  IN IF nanos >= NANOS_PER_SEC THEN DT(secs + 1, nanos - NANOS_PER_SEC)
     ELSE IF nanos < 0 THEN DT(secs - 1, nanos + NANOS_PER_SEC)
     ELSE DT(secs, nanos)

\* total_duration.num_milliseconds()
num_milliseconds(d) ==
  LET neg == d.secs < 0 /\ d.nanos > 0
      s == IF neg THEN d.secs + 1 ELSE d.secs
      n == IF neg THEN d.nanos - NANOS_PER_SEC ELSE d.nanos
  IN s * MILLIS_PER_SEC + TruncDiv(n, NANOS_PER_MILLI)

\* Mutant: the minutes are taken from the whole total, not from what the
\* hours left over.
DecomposeNoRemainder(total_millis) ==
  [ hours |-> TruncDiv(total_millis, MILLIS_PER_HOUR),
    minutes |-> TruncDiv(total_millis, MILLIS_PER_MINUTE),
    seconds |-> TruncDiv(TruncRem(total_millis, MILLIS_PER_MINUTE), MILLIS_PER_SEC),
    milliseconds |-> TruncRem(total_millis, MILLIS_PER_SEC) ]

\* hours, minutes, seconds and milliseconds of total_millis; each
\* remaining_millis is what the step before left over.
Decompose(total_millis) ==
  Bind(TruncRem(total_millis, MILLIS_PER_HOUR), LAMBDA remaining1 :
    Bind(TruncRem(remaining1, MILLIS_PER_MINUTE), LAMBDA remaining2 :
      [ hours |-> TruncDiv(total_millis, MILLIS_PER_HOUR),
        minutes |-> TruncDiv(remaining1, MILLIS_PER_MINUTE),
        seconds |-> TruncDiv(remaining2, MILLIS_PER_SEC),
        milliseconds |-> TruncRem(remaining2, MILLIS_PER_SEC) ]))

\* Total, average, count and decomposition of the differences.
ReportOf(time_diffs) ==
  Bind(fold_sum(DurationZero, time_diffs), LAMBDA total_duration :
    Bind(num_milliseconds(total_duration), LAMBDA total_millis :
      [ kind |-> "statistics",
        avg_duration |-> DurationDiv(total_duration, Len(time_diffs)),
        total_duration |-> total_duration,
        total_millis |-> total_millis,
        files |-> Len(time_diffs),
        hms |-> Decompose(total_millis) ]))

\* The report once at least two timestamps were collected: sort, take the
\* differences and reduce them.
Statistics(ts) ==
  Bind(sort(ts), LAMBDA sorted :
    Bind(windows_diffs(sorted), LAMBDA time_diffs : ReportOf(time_diffs)))

\* println!("Not enough timestamps to calculate average.")
NotEnough == [kind |-> "not-enough"]

\* ----------------------------------------------------------------- state
VARIABLES
  pc,                  \* position of main
  continuation_token,  \* Option<String>
  timestamps,          \* Vec<DateTime<Utc>>
  resp,                \* the page received last
  idx,                 \* position of the for loop in resp.contents
  result,              \* what main returned: Ok(()) or Err(..)
  printed,             \* what the run reported
  nreq,                \* history: number of requests sent
  nresp,               \* history: number of requests answered (page or error)
  request,             \* history: continuation token of the request sent last
  listed               \* history: last_modified values present on the pages received

vars == <<pc, continuation_token, timestamps, resp, idx, result, printed,
          nreq, nresp, request, listed>>

Init ==
  /\ pc = "send"
  /\ continuation_token = None
  /\ timestamps = <<>>
  /\ resp = None
  /\ idx = 0
  /\ result = None
  /\ printed = None
  /\ nreq = 0
  /\ nresp = 0
  /\ request = None
  /\ listed = <<>>

\* The last_modified values present among the objects of a page.
RECURSIVE PresentOf(_)
PresentOf(objs) ==
  IF objs = <<>> THEN <<>>
  ELSE (IF Head(objs).last_modified.some
          THEN <<Head(objs).last_modified.val>> ELSE <<>>) \o PresentOf(Tail(objs))

PresentOn(page) ==
  IF page.contents.some THEN PresentOf(page.contents.val) ELSE <<>>

\* Mutant: the for loop stops after the first object of a page.
LoopDoneAfterFirst ==
  IF resp.val.contents.some
    THEN idx > Len(resp.val.contents.val) \/ idx > 1
    ELSE TRUE

\* The for loop over resp.contents has nothing left to visit.
LoopDone ==
  IF resp.val.contents.some THEN idx > Len(resp.val.contents.val) ELSE TRUE

CurrentObject == resp.val.contents.val[idx]

\* list_objects_v2()...set_continuation_token(continuation_token.clone()).send()
Send ==
  /\ pc = "send"
  /\ nreq < MaxPages
  /\ request' = continuation_token
  /\ nreq' = nreq + 1
  /\ pc' = "await"
  /\ UNCHANGED <<continuation_token, timestamps, resp, idx, result, printed,
                 nresp, listed>>

\* .await returned a page.
RecvOk ==
  /\ pc = "await"
  /\ \E page \in Pages :
       /\ resp' = Some(page)
       /\ Len(listed) + Len(PresentOn(page)) <= MaxListed
       /\ listed' = listed \o PresentOn(page)
  /\ nresp' = nresp + 1
  /\ idx' = 1
  /\ pc' = "contents"
  /\ UNCHANGED <<continuation_token, timestamps, result, printed, nreq, request>>

\* Mutant: a failed request is sent again.
RetryAfterSendError == "send"

\* Where main goes when the request fails.
AfterSendError == "exit"

\* .await? returned an error.
RecvErr ==
  /\ pc = "await"
  /\ nresp' = nresp + 1
  /\ pc' = AfterSendError
  /\ result' = Some("Err(SdkError)")
  /\ UNCHANGED <<continuation_token, timestamps, resp, idx, printed, nreq,
                 request, listed>>

\* An object without last_modified is passed over.
ObjectSkip ==
  /\ pc = "contents"
  /\ ~LoopDone
  /\ ~CurrentObject.last_modified.some
  /\ idx' = idx + 1
  /\ UNCHANGED <<pc, continuation_token, timestamps, resp, result, printed,
                 nreq, nresp, request, listed>>

\* An object whose last_modified parses is pushed.
ObjectPush ==
  /\ pc = "contents"
  /\ ~LoopDone
  /\ CurrentObject.last_modified.some
  /\ LET parsed == parse_from_rfc3339(to_string(CurrentObject.last_modified.val))
     IN /\ parsed.ok
        /\ timestamps' = Append(timestamps, parsed.val)
  /\ idx' = idx + 1
  /\ UNCHANGED <<pc, continuation_token, resp, result, printed, nreq, nresp,
                 request, listed>>

\* Mutant: an object whose last_modified does not parse is passed over.
ObjectParseSkip ==
  /\ pc = "contents"
  /\ ~LoopDone
  /\ CurrentObject.last_modified.some
  /\ ~parse_from_rfc3339(to_string(CurrentObject.last_modified.val)).ok
  /\ idx' = idx + 1
  /\ UNCHANGED <<pc, continuation_token, timestamps, resp, result, printed,
                 nreq, nresp, request, listed>>

\* parse_from_rfc3339(..)? failed.
ObjectParseErr ==
  /\ pc = "contents"
  /\ ~LoopDone
  /\ CurrentObject.last_modified.some
  /\ ~parse_from_rfc3339(to_string(CurrentObject.last_modified.val)).ok
  /\ pc' = "exit"
  /\ result' = Some("Err(ParseError)")
  /\ UNCHANGED <<continuation_token, timestamps, resp, idx, printed, nreq,
                 nresp, request, listed>>

\* Mutant: any page that reports is_truncated at all counts as truncated.
IsTruncatedPresent(page) == page.is_truncated.some

\* resp.is_truncated.unwrap_or(false)
IsTruncated(page) == unwrap_or(page.is_truncated, FALSE)

\* Mutant: the token of the request before is kept.
StaleToken(page) == continuation_token

\* The token the next request carries after a truncated page.
NextToken(page) == page.next_continuation_token

\* if resp.is_truncated.unwrap_or(false) { continuation_token = ... }
Truncated ==
  /\ pc = "contents"
  /\ LoopDone
  /\ IsTruncated(resp.val)
  /\ continuation_token' = NextToken(resp.val)
  /\ pc' = "send"
  /\ UNCHANGED <<timestamps, resp, idx, result, printed, nreq, nresp, request,
                 listed>>

\* else { break; }
NotTruncated ==
  /\ pc = "contents"
  /\ LoopDone
  /\ ~IsTruncated(resp.val)
  /\ pc' = "report"
  /\ UNCHANGED <<continuation_token, timestamps, resp, idx, result, printed,
                 nreq, nresp, request, listed>>

\* Mutant: the threshold is off by one.
TooFewAt3(ts) == Len(ts) < 3

\* timestamps.len() < 2
TooFew(ts) == Len(ts) < 2

\* if timestamps.len() < 2 { println!(..); return Ok(()); }
ReportNotEnough ==
  /\ pc = "report"
  /\ TooFew(timestamps)
  /\ printed' = Some(NotEnough)
  /\ result' = Some("Ok")
  /\ pc' = "exit"
  /\ UNCHANGED <<continuation_token, timestamps, resp, idx, nreq, nresp,
                 request, listed>>

\* sort, differences, total, average, decomposition, println!, Ok(())
ReportStatistics ==
  /\ pc = "report"
  /\ ~TooFew(timestamps)
  /\ timestamps' = sort(timestamps)
  /\ printed' = Some(Statistics(timestamps))
  /\ result' = Some("Ok")
  /\ pc' = "exit"
  /\ UNCHANGED <<continuation_token, resp, idx, nreq, nresp, request, listed>>

Next ==
  \/ Send
  \/ RecvOk
  \/ RecvErr
  \/ ObjectSkip
  \/ ObjectPush
  \/ ObjectParseErr
  \/ Truncated
  \/ NotTruncated
  \/ ReportNotEnough
  \/ ReportStatistics

Spec == Init /\ [][Next]_vars

\* main runs on one task: a step it can take is eventually taken.
FairSpec == Spec /\ WF_vars(Next)

\* The report by itself: the listing returned one page carrying the given
\* timestamps and the loop over it has just ended.
ReportInit ==
  /\ pc = "report"
  /\ continuation_token = None
  /\ timestamps \in SeqsUpTo(ReportTimes, MaxLen)
  /\ resp = Some([ contents |-> Some([i \in 1..Len(timestamps) |->
                                        [last_modified |-> Some(timestamps[i])]]),
                   is_truncated |-> Some(FALSE),
                   next_continuation_token |-> None ])
  /\ idx = Len(timestamps) + 1
  /\ result = None
  /\ printed = None
  /\ nreq = 1
  /\ nresp = 1
  /\ request = None
  /\ listed = timestamps

ReportNext ==
  \/ ReportNotEnough
  \/ ReportStatistics

ReportSpec == ReportInit /\ [][ReportNext]_vars

\* ------------------------------------------------------------ properties
Ok == Some("Ok")
SdkError == Some("Err(SdkError)")
ParseError == Some("Err(ParseError)")

Count(x, s) == Cardinality({ i \in 1..Len(s) : s[i] = x })
Range(s) == { s[i] : i \in 1..Len(s) }
SameMultiset(a, b) ==
  /\ Len(a) = Len(b)
  /\ \A x \in Range(a) \cup Range(b) : Count(x, a) = Count(x, b)

\* What each listed last_modified reads as once printed and parsed again.
ParsedListed ==
  [ i \in 1..Len(listed) |->
      LET r == parse_from_rfc3339(to_string(listed[i]))
      IN IF r.ok THEN r.val ELSE [unparsed |-> listed[i]] ]

Reported == printed.some /\ printed.val.kind = "statistics"

\* C1 (pagination completeness): when the listing loop has ended, the
\* collected timestamps are, as a multiset, exactly the parsed last_modified
\* values of all objects of all pages received that carry one; objects
\* without last_modified add nothing and nothing is dropped or repeated.
C1_PaginationComplete ==
  (pc = "report" \/ (pc = "exit" /\ result = Ok)) =>
    SameMultiset(timestamps, ParsedListed)

C1_Witness ==
  /\ pc = "report"
  /\ nresp >= 2
  /\ Len(timestamps) >= 3
  /\ DT(10, 2300000) \in Range(timestamps)
  /\ resp.val.contents.some
  /\ \E i \in 1..Len(resp.val.contents.val) :
       ~resp.val.contents.val[i].last_modified.some

\* C2 (protocol violation): after a page with is_truncated = true and no
\* next_continuation_token the run sends no request and reports nothing;
\* it ends with an error.
C2_ProtocolViolation ==
  ( /\ resp.some
    /\ resp.val.is_truncated = Some(TRUE)
    /\ ~resp.val.next_continuation_token.some ) =>
    ( /\ pc \in {"contents", "exit"}
      /\ printed = None
      /\ (pc = "exit" => result.some /\ result # Ok) )

\* C3 (fail fast): at an object whose last_modified is present and does not
\* parse, the only step of the run is to end with the parse error; nothing
\* is pushed, nothing is requested and nothing is reported then or later.
C3_FailFast ==
  /\ [][ ( /\ pc = "contents"
           /\ ~LoopDone
           /\ CurrentObject.last_modified.some
           /\ ~parse_from_rfc3339(to_string(CurrentObject.last_modified.val)).ok )
         => ( /\ pc' = "exit"
              /\ result' = ParseError
              /\ timestamps' = timestamps
              /\ nreq' = nreq
              /\ printed' = None ) ]_vars
  /\ [][ result = ParseError => UNCHANGED vars ]_vars
  /\ [](result = ParseError => pc = "exit" /\ printed = None)

C3_Witness ==
  /\ pc = "exit"
  /\ result = ParseError
  /\ nresp = 2
  /\ Len(timestamps) >= 2
  /\ resp.val.is_truncated = Some(TRUE)
  /\ idx < Len(resp.val.contents.val)

\* C4 (all or nothing on a listing failure): when a request fails the run
\* ends at once with that error; the request is not sent again, no further
\* page is requested and nothing is reported, whatever was collected.
C4_ListingFailure ==
  /\ [](result = SdkError => pc = "exit" /\ printed = None)
  /\ [][ result = SdkError => UNCHANGED vars ]_vars
  /\ [][ (pc = "await" /\ pc' # "contents") =>
           (result' = SdkError /\ nreq' = nreq /\ timestamps' = timestamps) ]_vars

C4_Witness ==
  /\ result = SdkError
  /\ pc = "exit"
  /\ nreq = 3
  /\ Len(timestamps) >= 2

\* C5 (insufficient data): a run that ends normally with fewer than two
\* timestamps reports "not enough" and no figures; one that ends normally
\* with two or more reports the statistics; both return Ok.
C5_InsufficientData ==
  /\ pc = "exit" /\ result = Ok =>
       IF Len(timestamps) < 2
         THEN printed = Some(NotEnough)
         ELSE Reported /\ printed.val.files = Len(timestamps) - 1
  /\ printed.some => pc = "exit" /\ result = Ok
  /\ pc = "report" => result = None /\ printed = None

C5_Witness ==
  /\ pc = "exit"
  /\ printed = Some(NotEnough)
  /\ Len(timestamps) = 1
  /\ nresp >= 2

Perms(s) ==
  { [i \in 1..Len(s) |-> s[f[i]]] : f \in Permutations(1..Len(s)) }

\* C6 (order independence): the average, total and count reported for the
\* timestamps in their order of arrival are those of every other order of
\* arrival of the same timestamps.
C6_OrderIndependent ==
  (pc = "exit" /\ Reported) =>
    \A p \in Perms(listed) :
      LET r == Statistics(p)
      IN /\ r.avg_duration = printed.val.avg_duration
         /\ r.total_duration = printed.val.total_duration
         /\ r.files = printed.val.files

C6_Witness ==
  /\ pc = "exit"
  /\ Reported
  /\ Len(listed) = 4
  /\ listed # timestamps
  /\ DateTimeLeq(listed[4], listed[1])
  /\ listed[1] # listed[4]

RECURSIVE DurationTimes(_, _)
DurationTimes(d, n) ==
  IF n = 0 THEN DurationZero ELSE DurationAdd(d, DurationTimes(d, n - 1))

\* total - average * count of the report
Shortfall ==
  DateTimeSub(printed.val.total_duration,
              DurationTimes(printed.val.avg_duration, printed.val.files))

\* The reported total is the span from the earliest to the latest timestamp.
TotalIsSpan ==
  printed.val.total_duration =
    DateTimeSub(timestamps[Len(timestamps)], timestamps[1])

\* C7 as stated (average identity): 0 <= total - average * count <= count - 1
\* nanoseconds.
C7_AverageIdentity ==
  (pc = "exit" /\ Reported) =>
    /\ TotalIsSpan
    /\ Shortfall.secs = 0
    /\ Shortfall.nanos <= printed.val.files - 1

\* C7 as amended: the division works on the seconds and on the nanoseconds
\* separately, each truncated, so
\* 0 <= total - average * count <= 2 * (count - 1) nanoseconds.
C7_AverageIdentityAmended ==
  (pc = "exit" /\ Reported) =>
    /\ TotalIsSpan
    /\ Shortfall.secs = 0
    /\ Shortfall.nanos <= 2 * (printed.val.files - 1)

C7_Witness ==
  /\ pc = "exit"
  /\ Reported
  /\ printed.val.files = 3
  /\ Shortfall.secs = 0
  /\ Shortfall.nanos > printed.val.files - 1

\* C8 (cursor sequencing): at most one request is unanswered; a request is
\* sent only when every earlier one was answered; the first carries no
\* token and each later one the next_continuation_token of the page
\* received just before it.
C8_CursorSequencing ==
  /\ [](nreq - nresp \in {0, 1})
  /\ [][ nreq' # nreq =>
           /\ nreq' = nreq + 1
           /\ nreq = nresp
           /\ request' = (IF nreq = 0 THEN None
                          ELSE resp.val.next_continuation_token) ]_vars

C8_Witness ==
  /\ pc = "await"
  /\ nreq = 3
  /\ request = Some("abc")
  /\ resp.val.next_continuation_token = Some("abc")

\* C9 (pagination termination): no request follows a page whose
\* is_truncated is false or absent, and once such a page is received the
\* run ends: with a report, or with the error of a timestamp on that page.
C9_Termination ==
  /\ [][ nreq' # nreq => (nreq = 0 \/ resp.val.is_truncated = Some(TRUE)) ]_vars
  /\ ( (pc = "contents" /\ resp.val.is_truncated # Some(TRUE))
         ~> (pc = "exit" /\ (result = ParseError \/ (result = Ok /\ printed.some))) )

C9_Witness ==
  /\ pc = "exit"
  /\ result = Ok
  /\ Reported
  /\ nresp = 3
  /\ resp.val.is_truncated = None

Hms == printed.val.hms

\* C10 (total decomposition): hours, minutes, seconds and milliseconds add
\* up to the whole milliseconds T >= 0 of the total, with minutes and
\* seconds below 60 and milliseconds below 1000; the count reported is the
\* number of timestamps less one; 0 s, 10 s, 30 s give 2 intervals,
\* 0h 0m 30s 0ms and an average of 15 s.
C10_Decomposition ==
  (pc = "exit" /\ Reported) =>
    /\ printed.val.total_millis >= 0
    /\ printed.val.total_millis =
         printed.val.total_duration.secs * MILLIS_PER_SEC
           + printed.val.total_duration.nanos \div NANOS_PER_MILLI
    /\ Hms.hours * 3600000 + Hms.minutes * 60000 + Hms.seconds * 1000
         + Hms.milliseconds = printed.val.total_millis
    /\ Hms.hours >= 0
    /\ Hms.minutes \in 0..59
    /\ Hms.seconds \in 0..59
    /\ Hms.milliseconds \in 0..999
    /\ printed.val.files = Len(listed) - 1
    /\ SameMultiset(listed, <<DT(0, 0), DT(10, 0), DT(30, 0)>>) =>
         /\ printed.val.files = 2
         /\ Hms = [hours |-> 0, minutes |-> 0, seconds |-> 30, milliseconds |-> 0]
         /\ printed.val.avg_duration = DT(15, 0)

C10_Witness ==
  /\ pc = "exit"
  /\ Reported
  /\ Hms.hours = 1
  /\ Hms.minutes = 1
  /\ Hms.seconds = 1
  /\ Hms.milliseconds = 2
  /\ printed.val.total_duration.nanos % NANOS_PER_MILLI # 0

====
